---- MODULE Spec2Model ----
(***************************************************************************)
(* Model of cosmogony's orchestration (src/lib.rs): create_ontology and    *)
(* build_cosmogony drive find_inclusions, type_zones, build_hierarchy,     *)
(* compute_labels, clean_untagged_zones and stats.compute over one shared  *)
(* zone vector.                                                            *)
(*                                                                         *)
(* Conventions.  A ZoneIndex is a position in the zone vector; positions   *)
(* are 1-based here (Rust index k is position k+1) and 0 stands for an     *)
(* absent parent.  Option<String>/Option<ZoneType> use the string "None"   *)
(* for None.  Option<u32> admin levels use NoLevel for None.  A label is   *)
(* the sequence of the names it is composed of (<<>> is the unset label).  *)
(* A zone's boundary is abstracted to the ordered list of the zones whose  *)
(* boundary contains it (tightest first), which is all that the inclusion  *)
(* resolver reads from the geometry.                                       *)
(***************************************************************************)
EXTENDS Integers, Sequences, FiniteSets, TLC

VARIABLES pc, i, zones, stats, inclusions, country_code, country_finder, err, stages

vars == <<pc, i, zones, stats, inclusions, country_code, country_finder, err, stages>>

\* Largest number of zones in an input extract.
NbZones == 3
\* Longest candidate-ancestor list of a zone in the hierarchy inputs.
MaxCand == 2

None == "None"
NoLevel == -1

Names == {"a", "b"}
Levels == {NoLevel, 2, 5}

Range(s) == {s[k] : k \in DOMAIN s}

\* ------------------------------------------------------------------------
\* Maps (BTreeMap): functions whose domain is the set of keys present.

EmptyMap == <<>>

\* *map.entry(k).or_insert(0) += 1
MapInc(m, k) ==
    IF k \in DOMAIN m THEN [m EXCEPT ![k] = @ + 1] ELSE (k :> 1) @@ m

RECURSIVE SumOver(_, _)
SumOver(m, keys) ==
    IF keys = {} THEN 0
    ELSE LET k == CHOOSE x \in keys : TRUE
         IN m[k] + SumOver(m, keys \ {k})

MapSum(m) == SumOver(m, DOMAIN m)

RECURSIVE SumOver2(_, _)
SumOver2(m, keys) ==
    IF keys = {} THEN 0
    ELSE LET k == CHOOSE x \in keys : TRUE
         IN MapSum(m[k]) + SumOver2(m, keys \ {k})

MapSum2(m) == SumOver2(m, DOMAIN m)

\* ------------------------------------------------------------------------
\* Zones and statistics.

\* Zone::from_osm: the zone's id is its position at creation (ZoneIndex {
\* index: zones.len() }); type, parent, children and label start unset.
NewZone(id, name, level, boundary) ==
    [id |-> id, name |-> name, admin_level |-> level, boundary |-> boundary,
     zone_type |-> None, parent |-> 0, children |-> {}, label |-> <<>>]

\* CosmogonyStats::default()
DefaultStats ==
    [zone_without_country |-> 0,
     zone_with_unkwown_country_rules |-> EmptyMap,
     unhandled_admin_level |-> EmptyMap,
     zone_type_counts |-> EmptyMap]

\* ------------------------------------------------------------------------
\* InclusionResolver (hierarchy_builder::find_inclusions): per zone, the
\* ordered candidate ancestors, tightest first; a zone never lists itself.

find_inclusions(zs) ==
    [z \in DOMAIN zs |-> SelectSeq(zs[z].boundary, LAMBDA c : c # z)]

\* ------------------------------------------------------------------------
\* CountryLocator.

\* country_finder.find_zone_country(&zone)
find_zone_country(finder, z) == finder.country[z]

\* The two sources of the country taken in the other order.
get_country_code_prefers_lookup(finder, z, code) ==
    IF find_zone_country(finder, z) # None THEN find_zone_country(finder, z)
    ELSE code

\* get_country_code: the explicit code when given, else the spatial lookup.
get_country_code(finder, z, code) ==
    IF code # None THEN code ELSE find_zone_country(finder, z)

\* The fail-fast test with || for &&.
no_country_context_or(code, finder) == code = None \/ finder.empty

\* type_zones' fail-fast test: country_code.is_none() && country_finder.is_empty()
no_country_context(code, finder) == code = None /\ finder.empty

\* ------------------------------------------------------------------------
\* ZoneTyper: country -> (admin level -> type), with a tag-based fallback.

HasRules(country) == country \in {"FR", "DE"}

DirectRule(country, level) ==
    IF level = 2 THEN "Country" ELSE None

Fallback(country) ==
    IF country = "DE" THEN "NonAdministrative" ELSE None

Finer(t) ==
    CASE t = "Country" -> "State"
      [] t = "State" -> "City"
      [] OTHER -> None

\* The nearest candidate ancestor whose type is already resolved (0: none).
NearestResolved(zs, cands) ==
    LET typed == SelectSeq(cands, LAMBDA c : c \in DOMAIN zs /\ zs[c].zone_type # None)
    IN IF typed = <<>> THEN 0 ELSE Head(typed)

Ok(t) == [ok |-> TRUE, t |-> t, e |-> "", country |-> "", lvl |-> NoLevel]
InvalidCountry(c) == [ok |-> FALSE, t |-> None, e |-> "InvalidCountry", country |-> c, lvl |-> NoLevel]
UnkownLevel(lvl, c) == [ok |-> FALSE, t |-> None, e |-> "UnkownLevel", country |-> c, lvl |-> lvl]

\* zone_typer.get_zone_type(&zones[i], &country, &inclusions[i], zones)
get_zone_type(zs, z, country, cands) ==
    LET level == zs[z].admin_level
        anc == NearestResolved(zs, cands)
    IN IF ~HasRules(country) THEN InvalidCountry(country)
       ELSE IF DirectRule(country, level) # None THEN Ok(DirectRule(country, level))
       ELSE IF level # NoLevel /\ anc # 0 /\ Finer(zs[anc].zone_type) # None
            THEN Ok(Finer(zs[anc].zone_type))
       ELSE IF level = NoLevel /\ Fallback(country) # None THEN Ok(Fallback(country))
       ELSE UnkownLevel(level, country)

\* ------------------------------------------------------------------------
\* type_zones' loop body.

\* The skipped zone not counted.
count_without_country_dropped(st) == st

\* stats.zone_without_country += 1
count_without_country(st) ==
    [st EXCEPT !.zone_without_country = @ + 1]

\* *stats.zone_with_unkwown_country_rules.entry(c).or_insert(0) += 1
count_unknown_country_rules(st, c) ==
    [st EXCEPT !.zone_with_unkwown_country_rules = MapInc(@, c)]

\* *stats.unhandled_admin_level.entry(country).or_insert(BTreeMap::new())
\*       .entry(lvl.unwrap_or(0)).or_insert(0) += 1
count_unhandled_admin_level(st, lvl, country) ==
    LET key == IF lvl = NoLevel THEN 0 ELSE lvl
        inner == IF country \in DOMAIN st.unhandled_admin_level
                 THEN st.unhandled_admin_level[country] ELSE EmptyMap
    IN [st EXCEPT !.unhandled_admin_level =
            (country :> MapInc(inner, key)) @@ @]

\* One iteration of `for i in 0..zones.len()`: the new zones and stats.
type_zone(zs, st, finder, code, incl, z) ==
    LET country == get_country_code(finder, z, code)
    IN IF country = None
       THEN [zones |-> zs, stats |-> count_without_country(st)]
       ELSE LET res == get_zone_type(zs, z, country, incl[z])
            IN IF res.ok
               THEN [zones |-> [zs EXCEPT ![z].zone_type = res.t], stats |-> st]
               ELSE IF res.e = "InvalidCountry"
               THEN [zones |-> zs, stats |-> count_unknown_country_rules(st, res.country)]
               ELSE [zones |-> zs,
                     stats |-> count_unhandled_admin_level(st, res.lvl, res.country)]

\* ------------------------------------------------------------------------
\* HierarchyBuilder (hierarchy_builder::build_hierarchy), one zone at a time.

\* The parent chain of z, nearest first.  The walk is cut after `fuel` links
\* and at a link that leaves the vector.
RECURSIVE Chain(_, _, _)
Chain(zs, z, fuel) ==
    IF fuel = 0 \/ z \notin DOMAIN zs THEN <<>>
    ELSE IF zs[z].parent = 0 \/ zs[z].parent \notin DOMAIN zs THEN <<>>
    ELSE <<zs[z].parent>> \o Chain(zs, zs[z].parent, fuel - 1)

Ancestors(zs, z) == Range(Chain(zs, z, Len(zs)))

\* c is already a descendant of z
IsDescendant(zs, c, z) == z \in Ancestors(zs, c)

\* The cycle guard left out: the first candidate other than the zone itself.
select_parent_unguarded(zs, cands, z) ==
    LET ok == SelectSeq(cands, LAMBDA c : c \in DOMAIN zs /\ c # z)
    IN IF ok = <<>> THEN 0 ELSE Head(ok)

\* The cycle guard testing whether the candidate is linked at all, not
\* whether it descends from the zone.
select_parent_rejects_linked(zs, cands, z) ==
    LET ok == SelectSeq(cands, LAMBDA c : c \in DOMAIN zs /\ c # z /\ zs[c].parent = 0)
    IN IF ok = <<>> THEN 0 ELSE Head(ok)

\* The first candidate that is not the zone itself and not already one of
\* its descendants (0: the zone is a root).
select_parent(zs, cands, z) ==
    LET ok == SelectSeq(cands, LAMBDA c : c \in DOMAIN zs /\ c # z /\ ~IsDescendant(zs, c, z))
    IN IF ok = <<>> THEN 0 ELSE Head(ok)

\* The parent is set and the inverse child link wired.
set_parent(zs, z, p) ==
    IF p = 0 THEN zs
    ELSE [k \in DOMAIN zs |->
            IF k = z /\ k = p THEN [zs[k] EXCEPT !.parent = p, !.children = @ \cup {z}]
            ELSE IF k = z THEN [zs[k] EXCEPT !.parent = p]
            ELSE IF k = p THEN [zs[k] EXCEPT !.children = @ \cup {z}]
            ELSE zs[k]]

hierarchy_step(zs, incl, z) == set_parent(zs, z, select_parent(zs, incl[z], z))

\* ------------------------------------------------------------------------
\* LabelComposer (Zone::compute_labels through a MutableSlice).

\* The label of zone z: its name, suffixed by the name of the nearest
\* ancestor that tells it apart from the other zones of the same name.
zone_compute_labels(zs, z) ==
    LET same == {k \in DOMAIN zs \ {z} : zs[k].name = zs[z].name}
        ancNames(k) == {zs[a].name : a \in Ancestors(zs, k)}
        taken == UNION {ancNames(k) : k \in same}
        tells == SelectSeq(Chain(zs, z, Len(zs)), LAMBDA a : zs[a].name \notin taken)
    IN IF same = {} \/ tells = <<>> THEN <<zs[z].name>>
       ELSE <<zs[z].name, zs[Head(tells)].name>>

\* The split taken one zone off: the label lands on the following zone.
compute_labels_step_off_by_one(zs, z) ==
    [zs EXCEPT ![(z % Len(zs)) + 1].label = zone_compute_labels(zs, z)]

\* One iteration of compute_labels' loop: MutableSlice::init(zones, i)
\* hands out zone i for writing and the others for reading.
compute_labels_step(zs, z) ==
    [zs EXCEPT ![z].label = zone_compute_labels(zs, z)]

\* ------------------------------------------------------------------------
\* Pruner and StatsAggregator.

\* retain with a predicate that keeps every zone.
clean_untagged_zones_keeps_all(zs) == SelectSeq(zs, LAMBDA z : TRUE)

\* zones.retain(|z| z.zone_type.is_some())
clean_untagged_zones(zs) == SelectSeq(zs, LAMBDA z : z.zone_type # None)

RECURSIVE CountTypes(_, _, _)
CountTypes(zs, k, m) ==
    IF k > Len(zs) THEN m
    ELSE CountTypes(zs, k + 1,
                    IF zs[k].zone_type = None THEN m ELSE MapInc(m, zs[k].zone_type))

\* stats.compute(&zones): the final type distribution.
stats_compute(st, zs) ==
    [st EXCEPT !.zone_type_counts = CountTypes(zs, 1, EmptyMap)]

\* ------------------------------------------------------------------------
\* The pipeline: create_ontology's calls in order, then build_cosmogony's
\* stats.compute.

\* clean_untagged_zones called before compute_labels.
NextStagePrunesBeforeLabels(s) ==
    CASE s = "find_inclusions" -> "type_zones"
      [] s = "type_zones" -> "build_hierarchy"
      [] s = "build_hierarchy" -> "clean_untagged_zones"
      [] s = "clean_untagged_zones" -> "compute_labels"
      [] s = "compute_labels" -> "stats_compute"
      [] OTHER -> "done"

NextStage(s) ==
    CASE s = "find_inclusions" -> "type_zones"
      [] s = "type_zones" -> "build_hierarchy"
      [] s = "build_hierarchy" -> "compute_labels"
      [] s = "compute_labels" -> "clean_untagged_zones"
      [] s = "clean_untagged_zones" -> "stats_compute"
      [] OTHER -> "done"

FindInclusions ==
    /\ pc = "find_inclusions"
    /\ inclusions' = find_inclusions(zones)
    /\ pc' = NextStage("find_inclusions")
    /\ stages' = Append(stages, "find_inclusions")
    /\ i' = 1
    /\ UNCHANGED <<zones, stats, country_code, country_finder, err>>

\* type_zones up to its loop: ZoneTyper::new(..)? and the fail-fast test.
\* An Err propagates through create_ontology's and build_cosmogony's `?`.
TypeZonesStart ==
    /\ pc = "type_zones"
    /\ \E loaded \in BOOLEAN :
         IF ~loaded
         THEN pc' = "failed" /\ err' = "zone_typer"
         ELSE IF no_country_context(country_code, country_finder)
         THEN pc' = "failed" /\ err' = "no_country"
         ELSE pc' = "type_zones_loop" /\ err' = err
    /\ i' = 1
    /\ UNCHANGED <<zones, stats, inclusions, country_code, country_finder, stages>>

TypeZonesLoop ==
    /\ pc = "type_zones_loop"
    /\ IF i <= Len(zones)
       THEN LET r == type_zone(zones, stats, country_finder, country_code, inclusions, i)
            IN /\ zones' = r.zones
               /\ stats' = r.stats
               /\ i' = i + 1
               /\ UNCHANGED <<pc, stages>>
       ELSE /\ pc' = NextStage("type_zones")
            /\ stages' = Append(stages, "type_zones")
            /\ i' = 1
            /\ UNCHANGED <<zones, stats>>
    /\ UNCHANGED <<inclusions, country_code, country_finder, err>>

BuildHierarchy ==
    /\ pc = "build_hierarchy"
    /\ IF i <= Len(zones)
       THEN /\ zones' = hierarchy_step(zones, inclusions, i)
            /\ i' = i + 1
            /\ UNCHANGED <<pc, stages>>
       ELSE /\ pc' = NextStage("build_hierarchy")
            /\ stages' = Append(stages, "build_hierarchy")
            /\ i' = 1
            /\ UNCHANGED zones
    /\ UNCHANGED <<stats, inclusions, country_code, country_finder, err>>

ComputeLabels ==
    /\ pc = "compute_labels"
    /\ IF i <= Len(zones)
       THEN /\ zones' = compute_labels_step(zones, i)
            /\ i' = i + 1
            /\ UNCHANGED <<pc, stages>>
       ELSE /\ pc' = NextStage("compute_labels")
            /\ stages' = Append(stages, "compute_labels")
            /\ i' = 1
            /\ UNCHANGED zones
    /\ UNCHANGED <<stats, inclusions, country_code, country_finder, err>>

CleanUntaggedZones ==
    /\ pc = "clean_untagged_zones"
    /\ zones' = clean_untagged_zones(zones)
    /\ pc' = NextStage("clean_untagged_zones")
    /\ stages' = Append(stages, "clean_untagged_zones")
    /\ UNCHANGED <<i, stats, inclusions, country_code, country_finder, err>>

StatsCompute ==
    /\ pc = "stats_compute"
    /\ stats' = stats_compute(stats, zones)
    /\ pc' = NextStage("stats_compute")
    /\ stages' = Append(stages, "stats_compute")
    /\ UNCHANGED <<i, zones, inclusions, country_code, country_finder, err>>

Next ==
    \/ FindInclusions
    \/ TypeZonesStart
    \/ TypeZonesLoop
    \/ BuildHierarchy
    \/ ComputeLabels
    \/ CleanUntaggedZones
    \/ StatsCompute

\* ------------------------------------------------------------------------
\* Inputs: the zones as ingestion hands them over, the optional explicit
\* country code, and what the country index built from the zones answers.

FixedName(k) == IF k % 2 = 1 THEN "a" ELSE "b"

\* Ordered lists of at most `len` distinct zones other than z.
CandLists(n, z, len) ==
    {s \in UNION {[1..l -> (1..n) \ {z}] : l \in 0..len} :
        \A j, k \in DOMAIN s : j # k => s[j] # s[k]}

\* Three shapes of geometry: disjoint zones, and zones nested one in the
\* next with the outermost last or first in the vector.
Flat(n) == [k \in 1..n |-> <<>>]
NestedUp(n) == [k \in 1..n |-> [j \in 1..(n - k) |-> k + j]]
NestedDown(n) == [k \in 1..n |-> [j \in 1..(k - 1) |-> k - j]]
Geometries(n) == {Flat(n), NestedUp(n), NestedDown(n)}

EmptyFinder(n) == [empty |-> TRUE, country |-> [k \in 1..n |-> None]]
Finders(n) ==
    {EmptyFinder(n)} \cup
    {[empty |-> FALSE, country |-> f] : f \in [1..n -> {None, "FR", "XX"}]}

Start(zs, code, finder) ==
    /\ pc = "find_inclusions"
    /\ i = 1
    /\ zones = zs
    /\ stats = DefaultStats
    /\ inclusions = <<>>
    /\ country_code = code
    /\ country_finder = finder
    /\ err = ""
    /\ stages = <<>>

\* Classification inputs in full, over the three geometries.
Init ==
    \E n \in 0..NbZones :
      \E levels \in [1..n -> Levels], geo \in Geometries(n),
         code \in {None, "FR", "DE"}, finder \in Finders(n) :
        Start([k \in 1..n |-> NewZone(k, FixedName(k), levels[k], geo[k])], code, finder)

\* Candidate-ancestor lists in full, every zone of admin level 2.
InitHierarchy ==
    \E geo \in [1..NbZones -> CandLists(NbZones, 0, MaxCand)],
       code \in {None, "FR"} :
      /\ \A z \in 1..NbZones : z \notin Range(geo[z])
      /\ Start([k \in 1..NbZones |-> NewZone(k, FixedName(k), 2, geo[k])],
               code, EmptyFinder(NbZones))

\* Names in full, over every choice of at most one candidate per zone.
InitLabels ==
    \E names \in [1..NbZones -> Names],
       geo \in [1..NbZones -> CandLists(NbZones, 0, 1)],
       code \in {None, "FR"} :
      /\ \A z \in 1..NbZones : z \notin Range(geo[z])
      /\ Start([k \in 1..NbZones |-> NewZone(k, names[k], 2, geo[k])],
               code, EmptyFinder(NbZones))

Spec == Init /\ [][Next]_vars
SpecHierarchy == InitHierarchy /\ [][Next]_vars
SpecLabels == InitLabels /\ [][Next]_vars

\* ------------------------------------------------------------------------
\* Properties.

Typed(zs) == {k \in DOMAIN zs : zs[k].zone_type # None}

\* Every zone dropped for a reason is counted once in one of these.
Accounted(st) ==
    st.zone_without_country + MapSum(st.zone_with_unkwown_country_rules)
        + MapSum2(st.unhandled_admin_level)

\* m2 is m with the count at key k raised by one (from 0 when k is new).
IncAt(m, m2, k) ==
    /\ DOMAIN m2 = DOMAIN m \cup {k}
    /\ m2[k] = (IF k \in DOMAIN m THEN m[k] ELSE 0) + 1
    /\ \A j \in DOMAIN m \ {k} : m2[j] = m[j]

\* u2 is u with exactly one (country, level) count raised by one.
IncAt2(u, u2) ==
    \E c \in DOMAIN u2 :
      /\ DOMAIN u2 = DOMAIN u \cup {c}
      /\ \A d \in DOMAIN u \ {c} : u2[d] = u[d]
      /\ \E l \in DOMAIN u2[c] :
           IncAt(IF c \in DOMAIN u THEN u[c] ELSE EmptyMap, u2[c], l)

InTypeLoopBody == pc = "type_zones_loop" /\ i <= Len(zones)

\* C1: clean_untagged_zones leaves no zone without a type and removes no zone
\* that has one (the survivors keep their order and content), and the zones
\* of a finished run all have a type.
C1_NoUntypedSurvivor ==
    [][/\ pc = "clean_untagged_zones" =>
            /\ \A k \in DOMAIN zones' : zones'[k].zone_type # None
            /\ \A k \in Typed(zones) : \E j \in DOMAIN zones' : zones'[j] = zones[k]
            /\ Len(zones') = Cardinality(Typed(zones))
       /\ pc' = "done" => \A k \in DOMAIN zones' : zones'[k].zone_type # None]_vars

\* A finished run in which pruning removed a zone and kept another.
C1_Witness ==
    pc = "done" /\ Len(zones) >= 1 /\ Len(zones) < Len(inclusions)

\* C2: type_zones' loop never fails; each iteration either sets the zone's
\* type and leaves the statistics alone, or leaves the zone untyped and
\* raises exactly one counter by one; and once pruning has run, the number of
\* removed zones is the sum of the three kinds of counters.
C2_StatsAccountForDrops ==
    [][/\ InTypeLoopBody =>
            /\ pc' = "type_zones_loop"
            /\ \A k \in DOMAIN zones \ {i} : zones'[k] = zones[k]
            /\ \/ /\ zones'[i].zone_type # None
                  /\ stats' = stats
               \/ /\ zones' = zones
                  /\ stats'.zone_without_country = stats.zone_without_country + 1
                  /\ stats'.zone_with_unkwown_country_rules = stats.zone_with_unkwown_country_rules
                  /\ stats'.unhandled_admin_level = stats.unhandled_admin_level
               \/ /\ zones' = zones
                  /\ stats'.zone_without_country = stats.zone_without_country
                  /\ \E c \in DOMAIN stats'.zone_with_unkwown_country_rules :
                       IncAt(stats.zone_with_unkwown_country_rules,
                             stats'.zone_with_unkwown_country_rules, c)
                  /\ stats'.unhandled_admin_level = stats.unhandled_admin_level
               \/ /\ zones' = zones
                  /\ stats'.zone_without_country = stats.zone_without_country
                  /\ stats'.zone_with_unkwown_country_rules = stats.zone_with_unkwown_country_rules
                  /\ IncAt2(stats.unhandled_admin_level, stats'.unhandled_admin_level)
       /\ pc' \in {"stats_compute", "done"} =>
            Len(inclusions') - Len(zones') = Accounted(stats')]_vars

\* A finished run that dropped a zone for each of the three reasons.
C2_Witness ==
    /\ pc = "done"
    /\ stats.zone_without_country >= 1
    /\ MapSum(stats.zone_with_unkwown_country_rules) >= 1
    /\ MapSum2(stats.unhandled_admin_level) >= 1

\* C3: without an explicit country code and with an empty country index the
\* run never gets past the start of type_zones, and when it has failed for
\* that reason no zone has a type, a parent, a child or a label, no counter
\* has moved and no zone has been removed; with an explicit country code the
\* run never fails for that reason.
C3_NoCountryContextFailsFast ==
    /\ (country_code = None /\ country_finder.empty) =>
          pc \in {"find_inclusions", "type_zones", "failed"}
    /\ (pc = "failed" /\ err = "no_country") =>
          /\ country_code = None /\ country_finder.empty
          /\ stats = DefaultStats
          /\ stages = <<"find_inclusions">>
          /\ Len(zones) = Len(inclusions)
          /\ \A k \in DOMAIN zones :
               /\ zones[k].zone_type = None
               /\ zones[k].parent = 0
               /\ zones[k].children = {}
               /\ zones[k].label = <<>>
    /\ country_code # None => err # "no_country"

\* A run over two or more zones that failed for want of a country context.
C3_Witness ==
    pc = "failed" /\ err = "no_country" /\ Len(zones) >= 2

\* C4: in a finished run that removed a zone, every parent and child index
\* of a surviving zone is a position of the pruned list, and the zone at that
\* position is the one the hierarchy builder selected (whose id is the index).
C4_IndicesValidAfterPrune ==
    (pc = "done" /\ Len(zones) < Len(inclusions)) =>
        \A k \in DOMAIN zones :
          /\ zones[k].parent # 0 =>
               /\ zones[k].parent \in DOMAIN zones
               /\ zones[zones[k].parent].id = zones[k].parent
          /\ \A c \in zones[k].children :
               /\ c \in DOMAIN zones
               /\ zones[c].id = c

\* The k-th ancestor of z along the parent links (0 when there is none).
RECURSIVE Up(_, _, _)
Up(zs, z, k) ==
    IF z = 0 \/ z \notin DOMAIN zs THEN 0
    ELSE IF k = 0 THEN z
    ELSE Up(zs, zs[z].parent, k - 1)

Acyclic(zs) == \A z \in DOMAIN zs : \A k \in 1..Len(zs) : Up(zs, z, k) # z

LinksConsistent(zs) ==
    \A p, z \in DOMAIN zs : (zs[z].parent = p) <=> (z \in zs[p].children)

Unpruned == pc \in {"build_hierarchy", "compute_labels", "clean_untagged_zones"}

\* C5: while and after build_hierarchy runs (up to pruning), no zone is its
\* own transitive ancestor, z's parent is p exactly when z is in p's child
\* set, every parent is one of the zone's candidates, and build_hierarchy
\* never ends the run in failure.
C5_HierarchyAcyclicConsistent ==
    /\ Unpruned =>
         /\ Acyclic(zones)
         /\ LinksConsistent(zones)
         /\ \A z \in DOMAIN zones :
              zones[z].parent # 0 => zones[z].parent \in Range(inclusions[z])
    /\ pc = "failed" => "build_hierarchy" \notin Range(stages)

\* build_hierarchy has finished over two zones that list each other first:
\* one has the other as parent, the other skipped the offending candidate.
C5_Witness ==
    /\ pc = "compute_labels"
    /\ \E a, b \in DOMAIN zones :
         /\ a # b
         /\ inclusions[a] # <<>> /\ Head(inclusions[a]) = b
         /\ inclusions[b] # <<>> /\ Head(inclusions[b]) = a
         /\ zones[a].parent = b
         /\ zones[b].parent # a

\* The orders in which n zones can be processed.
Orders(n) == {o \in [1..n -> 1..n] : \A j, k \in 1..n : j # k => o[j] # o[k]}

ClearLinks(zs) == [k \in DOMAIN zs |-> [zs[k] EXCEPT !.parent = 0, !.children = {}]]

\* build_hierarchy's pass taken in the order o, from its k-th zone on.
RECURSIVE BuildInOrder(_, _, _, _)
BuildInOrder(zs, incl, o, k) ==
    IF k > Len(o) THEN zs
    ELSE BuildInOrder(hierarchy_step(zs, incl, o[k]), incl, o, k + 1)

Parents(zs) == [k \in DOMAIN zs |-> zs[k].parent]

FirstCandidate(incl, z) == IF incl[z] = <<>> THEN 0 ELSE Head(incl[z])

\* The k-th zone reached from z by following first candidates.
RECURSIVE UpFirst(_, _, _)
UpFirst(incl, z, k) ==
    IF z = 0 THEN 0
    ELSE IF k = 0 THEN z
    ELSE UpFirst(incl, FirstCandidate(incl, z), k - 1)

\* No zone reaches itself by following first candidates: the cycle guard
\* has nothing to reject.
FirstCandidatesAcyclic(incl) ==
    \A z \in DOMAIN incl : \A k \in 1..Len(incl) : UpFirst(incl, z, k) # z

HierarchyBuilt == pc = "compute_labels" /\ i = 1

\* C9 as stated: once build_hierarchy has finished, a pass in any other order
\* of the zones would have given every zone the same parent.
C9_ParentsOrderIndependent ==
    HierarchyBuilt =>
        \A o \in Orders(Len(zones)) :
          Parents(BuildInOrder(ClearLinks(zones), inclusions, o, 1)) = Parents(zones)

\* C9 amended: when following first candidates leads no zone back to itself
\* (the cycle guard rejects nothing), every zone's parent is its first
\* candidate, in the pass of the program and in a pass in any other order.
C9_ParentsOrderIndependentWithoutCycles ==
    (HierarchyBuilt /\ FirstCandidatesAcyclic(inclusions)) =>
        /\ \A z \in DOMAIN zones : zones[z].parent = FirstCandidate(inclusions, z)
        /\ \A o \in Orders(Len(zones)) :
             Parents(BuildInOrder(ClearLinks(zones), inclusions, o, 1)) = Parents(zones)

\* build_hierarchy has finished on acyclic candidate lists that give some
\* zone a grandparent.
C9_Witness ==
    /\ HierarchyBuilt
    /\ FirstCandidatesAcyclic(inclusions)
    /\ \E z \in DOMAIN zones : Up(zones, z, 2) # 0

\* C6: each iteration of type_zones' loop classifies the zone against the
\* explicit country code when one is given, whatever the country index
\* answers for the zone, and against the index's answer otherwise; a zone for
\* which there is neither is left untyped and counted in zone_without_country,
\* which stays 0 throughout a run with an explicit code.
C6_ExplicitCountryOverrides ==
    [][/\ InTypeLoopBody =>
            LET c == IF country_code # None THEN country_code
                     ELSE country_finder.country[i]
                res == get_zone_type(zones, i, c, inclusions[i])
            IN IF c = None
               THEN /\ zones' = zones
                    /\ stats'.zone_without_country = stats.zone_without_country + 1
               ELSE /\ stats'.zone_without_country = stats.zone_without_country
                    /\ res.ok => zones'[i].zone_type = res.t /\ stats' = stats
                    /\ (~res.ok /\ res.e = "InvalidCountry") =>
                          /\ zones' = zones
                          /\ IncAt(stats.zone_with_unkwown_country_rules,
                                   stats'.zone_with_unkwown_country_rules, c)
                    /\ (~res.ok /\ res.e = "UnkownLevel") =>
                          /\ zones' = zones
                          /\ c \in DOMAIN stats'.unhandled_admin_level
                          /\ stats'.unhandled_admin_level # stats.unhandled_admin_level
       /\ country_code # None => stats'.zone_without_country = 0]_vars

\* Typing has finished with an explicit code and a zone that the index places
\* in a country without rules, or nowhere, and that got its type all the same.
C6_Witness ==
    /\ pc = "build_hierarchy"
    /\ country_code = "DE"
    /\ \E j, k \in DOMAIN zones :
         /\ country_finder.country[j] = "XX" /\ zones[j].zone_type # None
         /\ country_finder.country[k] = None /\ zones[k].zone_type # None

StageOrder ==
    <<"find_inclusions", "type_zones", "build_hierarchy", "compute_labels",
      "clean_untagged_zones", "stats_compute">>

\* The part of the run that precedes the stage in progress.
StagesBefore(p) ==
    CASE p = "find_inclusions" -> 0
      [] p \in {"type_zones", "type_zones_loop", "failed"} -> 1
      [] p = "build_hierarchy" -> 2
      [] p = "compute_labels" -> 3
      [] p = "clean_untagged_zones" -> 4
      [] p = "stats_compute" -> 5
      [] OTHER -> 6

\* C8: the stages that have completed are always the first ones of the order
\* inclusion resolution, typing, hierarchy, labels, pruning, statistics, in
\* that order and once each, and the stage in progress is the next one; no
\* zone has a parent, child or label before typing has completed, none has a
\* label before the hierarchy has completed, and no zone is removed until
\* every zone of the full collection has been through hierarchy building and
\* has its label.
C8_StagesInOrder ==
    /\ stages = SubSeq(StageOrder, 1, StagesBefore(pc))
    /\ pc \in {"find_inclusions", "type_zones", "type_zones_loop", "failed"} =>
         \A k \in DOMAIN zones :
           zones[k].parent = 0 /\ zones[k].children = {} /\ zones[k].label = <<>>
    /\ pc = "build_hierarchy" => \A k \in DOMAIN zones : zones[k].label = <<>>
    /\ pc \in {"type_zones_loop", "build_hierarchy", "compute_labels",
               "clean_untagged_zones"} => Len(zones) = Len(inclusions)
    /\ pc \in {"clean_untagged_zones", "stats_compute", "done"} =>
         \A k \in DOMAIN zones : zones[k].label # <<>>

\* A finished run in which pruning removed a zone and kept a zone that has a
\* parent.
C8_Witness ==
    /\ pc = "done"
    /\ Len(zones) < Len(inclusions)
    /\ \E k \in DOMAIN zones : zones[k].parent # 0

Labels(zs) == [k \in DOMAIN zs |-> zs[k].label]

ClearLabels(zs) == [k \in DOMAIN zs |-> [zs[k] EXCEPT !.label = <<>>]]

\* compute_labels' pass taken in the order o, from its k-th zone on.
RECURSIVE LabelInOrder(_, _, _)
LabelInOrder(zs, o, k) ==
    IF k > Len(o) THEN zs
    ELSE LabelInOrder(compute_labels_step(zs, o[k]), o, k + 1)

\* Each iteration of compute_labels' loop changes the label of zone i and
\* nothing else.
LabelStepWritesOwnLabel ==
    (pc = "compute_labels" /\ i <= Len(zones)) =>
        /\ zones'[i].label # <<>>
        /\ Len(zones') = Len(zones)
        /\ \A k \in DOMAIN zones :
             /\ k # i => zones'[k] = zones[k]
             /\ [zones'[k] EXCEPT !.label = <<>>] = [zones[k] EXCEPT !.label = <<>>]
        /\ UNCHANGED <<stats, inclusions, country_code, country_finder, err>>

\* A pass in any order of the zones gives the labels the program computed.
LabelsOrderIndependent ==
    \A o \in Orders(Len(zones)) :
       Labels(LabelInOrder(ClearLabels(zones), o, 1)) = Labels(zones)

\* The label of a zone stays the same when the name of a zone that is
\* neither the zone nor one of its ancestors is changed.
LabelReadsOnlyAncestors ==
    \A z, k \in DOMAIN zones : \A n \in Names :
       (k # z /\ k \notin Ancestors(zones, z)) =>
           zone_compute_labels([zones EXCEPT ![k].name = n], z) = zones[z].label

\* The label of a zone stays the same when the label of any zone is changed.
LabelReadsNoLabel ==
    \A z, k \in DOMAIN zones : \A l \in {<<>>, <<"a">>, <<"b", "a">>} :
       zone_compute_labels([zones EXCEPT ![k].label = l], z) = zones[z].label

\* compute_labels has returned and pruning has not run yet.  The pruning
\* step is always taken from such a state, so what a step property asks of
\* the state it leaves is asked of every such state.
LabelsComposed == pc = "clean_untagged_zones"

====
